---- MODULE Spec2Model ----
(***************************************************************************)
(* Resource CRUD service (problem5): persistent store, query builder,      *)
(* validation layer, rate limiter and request handlers, as a state machine.*)
(* Text values are sequences of one-character strings.                     *)
(***************************************************************************)
EXTENDS Integers, Sequences, FiniteSets, TLC

VARIABLES store, seq, clock, hits, resetTime, res, issued, inflight, nodeEnv, variant

vars == <<store, seq, clock, hits, resetTime, res, issued, inflight, nodeEnv, variant>>

(***************************************************************************)
(* Bounds of the model                                                     *)
(***************************************************************************)
MaxId == 2
MaxClock == 1
DayLen == 2
Headroom == 3
Overshoot == 2
MaxTotal == 26
MaxWindows == 2
MaxPage == 4
MaxN == 10

(***************************************************************************)
(* Program constants                                                       *)
(***************************************************************************)
MaxRequests == 100
WindowSec == 900
DefaultPage == 1
DefaultLimit == 10
MaxLimit == 100
NameMin == 3
NameMax == 100
DescriptionMin == 10
DescriptionMax == 500
CategoryMin == 3
CategoryMax == 50

Clients == {"c1"}

StatusEnum == {"active", "inactive", "archived"}

Fields == {"name", "description", "category", "status"}

(***************************************************************************)
(* Text helpers                                                            *)
(***************************************************************************)
UpperChars == <<"A","B","C","D","E","F","G","H","I","J","K","L","M",
                "N","O","P","Q","R","S","T","U","V","W","X","Y","Z">>
LowerChars == <<"a","b","c","d","e","f","g","h","i","j","k","l","m",
                "n","o","p","q","r","s","t","u","v","w","x","y","z">>
Digits == {"0","1","2","3","4","5","6","7","8","9"}

Range(s) == {s[i] : i \in DOMAIN s}

UpperSet == Range(UpperChars)

LowerOf == [c \in UpperSet |-> LowerChars[CHOOSE i \in DOMAIN UpperChars : UpperChars[i] = c]]

Lower(c) == IF c \in UpperSet THEN LowerOf[c] ELSE c

WordChars == UpperSet \cup Range(LowerChars) \cup Digits \cup {"_"}

IsWordChar(c) == c \in WordChars

IsSpace(c) == c = " "

Max(a, b) == IF a >= b THEN a ELSE b
Min(a, b) == IF a <= b THEN a ELSE b

\* SQLite LIKE: % matches any run, _ matches one character, ASCII letters
\* compare case-insensitively.
RECURSIVE LikeAt(_, _, _, _)
LikeAt(p, t, i, j) ==
  IF i > Len(p) THEN j > Len(t)
  ELSE IF p[i] = "%"
       THEN LikeAt(p, t, i + 1, j) \/ (j <= Len(t) /\ LikeAt(p, t, i, j + 1))
       ELSE IF j > Len(t) THEN FALSE
            ELSE IF p[i] = "_" THEN LikeAt(p, t, i + 1, j + 1)
                 ELSE Lower(p[i]) = Lower(t[j]) /\ LikeAt(p, t, i + 1, j + 1)

Like(text, pattern) == LikeAt(pattern, text, 1, 1)


MatchAt(s, i, pat) ==
  /\ i >= 1
  /\ i + Len(pat) - 1 <= Len(s)
  /\ \A k \in 1..Len(pat) : Lower(s[i + k - 1]) = Lower(pat[k])

HasSub(s, pat) == \E i \in 1..Len(s) : MatchAt(s, i, pat)

\* pat occurs at i as a whole word (regex \bpat\b, pat made of word characters)
WordAt(s, i, pat) ==
  /\ MatchAt(s, i, pat)
  /\ (i = 1 \/ ~IsWordChar(s[i - 1]))
  /\ (i + Len(pat) > Len(s) \/ ~IsWordChar(s[i + Len(pat)]))

HasWord(s, pat) == \E i \in 1..Len(s) : WordAt(s, i, pat)

(***************************************************************************)
(* Security Filter (utils/security.ts)                                     *)
(***************************************************************************)
SqlKeywords ==
  { <<"S","E","L","E","C","T">>, <<"I","N","S","E","R","T">>,
    <<"U","P","D","A","T","E">>, <<"D","E","L","E","T","E">>,
    <<"D","R","O","P">>, <<"C","R","E","A","T","E">>, <<"A","L","T","E","R">>,
    <<"E","X","E","C">>, <<"E","X","E","C","U","T","E">>,
    <<"U","N","I","O","N">>, <<"D","E","C","L","A","R","E">> }

SqlComments == { <<"-","-">>, <<"#">>, <<"/","*">>, <<"*","/">> }

SqlQuotes == { "'", "\"", ";", "\\" }

\* /(\bOR\b|\bAND\b).*?=.*?/gi
OrAndEquals(s) ==
  \E w \in { <<"O","R">>, <<"A","N","D">> } :
    \E i \in 1..Len(s) :
      /\ WordAt(s, i, w)
      /\ \E j \in (i + Len(w))..Len(s) :
           /\ s[j] = "="
           /\ \A k \in (i + Len(w))..(j - 1) : s[k] # "\n"

containsSQLInjection(input) ==
  \/ \E kw \in SqlKeywords : HasWord(input, kw)
  \/ \E c \in SqlComments : HasSub(input, c)
  \/ \E i \in 1..Len(input) : input[i] \in SqlQuotes
  \/ OrAndEquals(input)

ScriptOpen == <<"<","s","c","r","i","p","t">>
ScriptClose == <<"<","/","s","c","r","i","p","t",">">>

\* /<script\b[^<]*(?:(?!<\/script>)<[^<]*)*<\/script>/gi
ScriptBlock(s) ==
  \E i \in 1..Len(s) :
    /\ MatchAt(s, i, ScriptOpen)
    /\ (i + 7 > Len(s) \/ ~IsWordChar(s[i + 7]))
    /\ \E j \in (i + 7)..Len(s) : MatchAt(s, j, ScriptClose)

\* /on\w+\s*=/gi
EventHandler(s) ==
  \E i \in 1..Len(s) :
    /\ MatchAt(s, i, <<"o","n">>)
    /\ \E e \in (i + 2)..Len(s) :
         /\ \A k \in (i + 2)..e : IsWordChar(s[k])
         /\ \E q \in (e + 1)..Len(s) :
              /\ s[q] = "="
              /\ \A k \in (e + 1)..(q - 1) : IsSpace(s[k])

XssTags ==
  { <<"j","a","v","a","s","c","r","i","p","t",":">>,
    <<"<","i","f","r","a","m","e">>, <<"<","o","b","j","e","c","t">>,
    <<"<","e","m","b","e","d">> }

containsXSS(input) ==
  \/ ScriptBlock(input)
  \/ EventHandler(input)
  \/ \E t \in XssTags : HasSub(input, t)

securityCheck(input) ==
  (IF containsSQLInjection(input) THEN {"Potential SQL injection detected"} ELSE {})
  \cup (IF containsXSS(input) THEN {"Potential XSS attack detected"} ELSE {})

(***************************************************************************)
(* xss-clean middleware: every "<" of a body string becomes "&lt;"         *)
(***************************************************************************)
RECURSIVE EscapeLt(_)
EscapeLt(s) ==
  IF s = <<>> THEN <<>>
  ELSE (IF Head(s) = "<" THEN <<"&","l","t",";">> ELSE <<Head(s)>>) \o EscapeLt(Tail(s))

TextFields == {"name", "description", "category"}

\* keys of req.body and req.query that carry free text
TextKeys == TextFields \cup {"search"}

xssClean(body) ==
  [f \in DOMAIN body |-> IF f \in TextKeys THEN EscapeLt(body[f]) ELSE body[f]]

(***************************************************************************)
(* Validation Layer (middleware/validation.ts)                             *)
(***************************************************************************)
E(field, type) == [field |-> field, type |-> type]

\* Joi.string().min(lo).max(hi) without .custom(secureString)
SecureStringErrorsNoCustom(field, v, lo, hi) ==
  IF Len(v) = 0 THEN {E(field, "string.empty")}
  ELSE (IF Len(v) < lo THEN {E(field, "string.min")} ELSE {})
       \cup (IF Len(v) > hi THEN {E(field, "string.max")} ELSE {})

\* Joi.string().min(lo).max(hi).custom(secureString)
SecureStringErrors(field, v, lo, hi) ==
  IF Len(v) = 0 THEN {E(field, "string.empty")}
  ELSE (IF Len(v) < lo THEN {E(field, "string.min")} ELSE {})
       \cup (IF Len(v) > hi THEN {E(field, "string.max")} ELSE {})
       \cup (IF securityCheck(v) # {} THEN {E(field, "string.security")} ELSE {})

\* /^[a-zA-Z0-9\s\-_]+$/
CategoryPattern(v) ==
  /\ Len(v) >= 1
  /\ \A i \in 1..Len(v) : IsWordChar(v[i]) \/ IsSpace(v[i]) \/ v[i] = "-"

CategoryErrors(v) ==
  IF Len(v) = 0 THEN {E("category", "string.empty")}
  ELSE (IF Len(v) < CategoryMin THEN {E("category", "string.min")} ELSE {})
       \cup (IF Len(v) > CategoryMax THEN {E("category", "string.max")} ELSE {})
       \cup (IF ~CategoryPattern(v) THEN {E("category", "string.pattern.base")} ELSE {})

\* status without .valid(...)
StatusErrorsAny(v) == {}

\* Joi.string().valid('active', 'inactive', 'archived')
StatusErrors(v) == IF v \in StatusEnum THEN {} ELSE {E("status", "any.only")}

FieldErrors(f, v) ==
  CASE f = "name" -> SecureStringErrors("name", v, NameMin, NameMax)
    [] f = "description" -> SecureStringErrors("description", v, DescriptionMin, DescriptionMax)
    [] f = "category" -> CategoryErrors(v)
    [] f = "status" -> StatusErrors(v)

StripUnknown(body) == [f \in DOMAIN body \cap Fields |-> body[f]]

\* validate with abortEarly: true: only the first violation, in the key order
\* of the schema
createResourceSchemaAbortEarly(body) ==
  LET known == StripUnknown(body)
      errs(f) == IF f \in DOMAIN known THEN FieldErrors(f, known[f])
                 ELSE IF f \in TextFields THEN {E(f, "any.required")} ELSE {}
      order == <<"name", "description", "category", "status">>
      bad == {i \in DOMAIN order : errs(order[i]) # {}}
      first == CHOOSE i \in bad : \A j \in bad : i <= j
  IN [errors |-> IF bad = {} THEN {} ELSE {CHOOSE e \in errs(order[first]) : TRUE},
      value |-> [f \in DOMAIN known \cup {"status"} |->
                   IF f \in DOMAIN known THEN known[f] ELSE "active"]]

createResourceSchema(body) ==
  LET known == StripUnknown(body)
      present == UNION {FieldErrors(f, known[f]) : f \in DOMAIN known}
      missing == {E(f, "any.required") : f \in TextFields \ DOMAIN known}
      value == [f \in DOMAIN known \cup {"status"} |->
                  IF f \in DOMAIN known THEN known[f] ELSE "active"]
  IN [errors |-> present \cup missing, value |-> value]

\* the update schema without .min(1)
updateResourceSchemaNoMin(body) ==
  LET known == StripUnknown(body)
      present == UNION {FieldErrors(f, known[f]) : f \in DOMAIN known}
  IN [errors |-> present, value |-> known]

updateResourceSchema(body) ==
  LET known == StripUnknown(body)
      present == UNION {FieldErrors(f, known[f]) : f \in DOMAIN known}
      empty == IF DOMAIN known = {} THEN {E("", "object.min")} ELSE {}
  IN [errors |-> present \cup empty, value |-> known]

(***************************************************************************)
(* Persistent store: table resources and its AUTOINCREMENT sequence        *)
(***************************************************************************)
MaxRowid(rows) ==
  IF DOMAIN rows = {} THEN 0
  ELSE CHOOSE m \in DOMAIN rows : \A k \in DOMAIN rows : k <= m

\* INTEGER PRIMARY KEY without AUTOINCREMENT: one more than the largest rowid present
NextRowidNoAuto(rows, sq) == MaxRowid(rows) + 1

\* INTEGER PRIMARY KEY AUTOINCREMENT: one more than the largest rowid ever used
NextRowid(rows, sq) == Max(sq, MaxRowid(rows)) + 1

\* updated_at without its DEFAULT CURRENT_TIMESTAMP
InsertRowNoDefault(id, name, description, category, status, now) ==
  [id |-> id, name |-> name, description |-> description,
   category |-> category, status |-> status,
   created_at |-> now, updated_at |-> 0]

\* INSERT INTO resources (name, description, category, status) VALUES (?, ?, ?, ?)
\* created_at and updated_at take DEFAULT CURRENT_TIMESTAMP of the same statement
InsertRow(id, name, description, category, status, now) ==
  [id |-> id, name |-> name, description |-> description,
   category |-> category, status |-> status,
   created_at |-> now, updated_at |-> now]

\* SELECT * FROM resources WHERE id = ?
getById(rows, id) == IF id \in DOMAIN rows THEN <<rows[id]>> ELSE <<>>

exists(rows, id) == id \in DOMAIN rows

\* INSERT that leaves status to the column default 'active'
createIgnoresStatus(rows, sq, now, data) ==
  LET id == NextRowid(rows, sq)
      row == InsertRow(id, data.name, data.description, data.category, "active", now)
      rows2 == [k \in DOMAIN rows \cup {id} |-> IF k = id THEN row ELSE rows[k]]
  IN [rows |-> rows2, seq |-> id, result |-> getById(rows2, id)]

create(rows, sq, now, data) ==
  LET status == IF "status" \in DOMAIN data THEN data.status ELSE "active"
      id == NextRowid(rows, sq)
      row == InsertRow(id, data.name, data.description, data.category, status, now)
      rows2 == [k \in DOMAIN rows \cup {id} |-> IF k = id THEN row ELSE rows[k]]
  IN [rows |-> rows2, seq |-> id, result |-> getById(rows2, id)]

\* SET clause that never refreshes updated_at
UpdateRowStale(row, data, now) ==
  [c \in DOMAIN row |-> IF c \in DOMAIN data \cap Fields THEN data[c] ELSE row[c]]

\* UPDATE resources SET <supplied fields>, updated_at = CURRENT_TIMESTAMP WHERE id = ?
UpdateRow(row, data, now) ==
  [c \in DOMAIN row |->
     IF c \in DOMAIN data \cap Fields THEN data[c]
     ELSE IF c = "updated_at" THEN now
     ELSE row[c]]

\* UPDATE without WHERE id = ?
updateNoWhere(rows, id, now, data) ==
  IF getById(rows, id) = <<>> THEN [rows |-> rows, found |-> FALSE, result |-> <<>>]
  ELSE IF DOMAIN data \cap Fields = {}
       THEN [rows |-> rows, found |-> TRUE, result |-> getById(rows, id)]
       ELSE LET rows2 == [k \in DOMAIN rows |-> UpdateRow(rows[k], data, now)]
            IN [rows |-> rows2, found |-> TRUE, result |-> getById(rows2, id)]

\* SET clause writing the timestamp into created_at
updateTouchCreated(rows, id, now, data) ==
  IF getById(rows, id) = <<>> THEN [rows |-> rows, found |-> FALSE, result |-> <<>>]
  ELSE IF DOMAIN data \cap Fields = {}
       THEN [rows |-> rows, found |-> TRUE, result |-> getById(rows, id)]
       ELSE LET rows2 == [rows EXCEPT ![id] =
                            [UpdateRow(rows[id], data, now) EXCEPT
                               !.created_at = now, !.updated_at = rows[id].updated_at]]
            IN [rows |-> rows2, found |-> TRUE, result |-> getById(rows2, id)]

\* update that inserts the row when the id is not stored
updateUpsert(rows, id, now, data) ==
  IF getById(rows, id) = <<>>
  THEN LET row == InsertRow(id, <<>>, <<>>, <<>>, "active", now)
           rows2 == [k \in DOMAIN rows \cup {id} |->
                       IF k = id THEN UpdateRow(row, data, now) ELSE rows[k]]
       IN [rows |-> rows2, found |-> TRUE, result |-> getById(rows2, id)]
  ELSE IF DOMAIN data \cap Fields = {}
       THEN [rows |-> rows, found |-> TRUE, result |-> getById(rows, id)]
       ELSE LET rows2 == [rows EXCEPT ![id] = UpdateRow(rows[id], data, now)]
            IN [rows |-> rows2, found |-> TRUE, result |-> getById(rows2, id)]

\* update without the early return on an empty SET list
updateAlwaysWrites(rows, id, now, data) ==
  IF getById(rows, id) = <<>> THEN [rows |-> rows, found |-> FALSE, result |-> <<>>]
  ELSE LET rows2 == [rows EXCEPT ![id] = UpdateRow(rows[id], data, now)]
       IN [rows |-> rows2, found |-> TRUE, result |-> getById(rows2, id)]

update(rows, id, now, data) ==
  IF getById(rows, id) = <<>> THEN [rows |-> rows, found |-> FALSE, result |-> <<>>]
  ELSE IF DOMAIN data \cap Fields = {}
       THEN [rows |-> rows, found |-> TRUE, result |-> getById(rows, id)]
       ELSE LET rows2 == [rows EXCEPT ![id] = UpdateRow(rows[id], data, now)]
            IN [rows |-> rows2, found |-> TRUE, result |-> getById(rows2, id)]

\* result.changes >= 0 in place of result.changes > 0
deleteAlwaysChanged(rows, id) ==
  [rows |-> [k \in DOMAIN rows \ {id} |-> rows[k]], deleted |-> TRUE]

\* DELETE FROM resources WHERE id = ?
delete(rows, id) ==
  [rows |-> [k \in DOMAIN rows \ {id} |-> rows[k]], deleted |-> id \in DOMAIN rows]


(***************************************************************************)
(* Inputs the requests are drawn from                                      *)
(***************************************************************************)
NoFields == [f \in {} |-> ""]

FilterKeys == {"name", "category", "status", "created_at", "search"}

Web == <<"W","e","b">>
Api == <<"A","p","i">>
Ab == <<"a","b">>
RestGuide == <<"R","E","S","T"," ","g","u","i","d","e">>
WebManual == <<"w","e","b"," ","m","a","n","u","a","l">>
Tech == <<"t","e","c","h">>
Ops == <<"o","p","s">>
ScriptAlert ==
  <<"<","s","c","r","i","p","t",">","a","l","e","r","t","(","1",")",
    "<","/","s","c","r","i","p","t",">">>
OnloadAlert == <<"o","n","l","o","a","d","=","a","l","e","r","t","(","1",")">>

CreateBodies ==
  { [name |-> Web, description |-> RestGuide, category |-> Tech],
    [name |-> Api, description |-> WebManual, category |-> Ops, status |-> "inactive"],
    [name |-> Web, description |-> RestGuide, category |-> Tech, status |-> "deleted"],
    [name |-> Ab, category |-> Tech] }

UpdateBodies ==
  { [status |-> "archived"],
    [name |-> Api, category |-> Ops],
    [status |-> "deleted"],
    NoFields }

\* bodies whose name or description the security filter objects to
HostileCreates == { [name |-> ScriptAlert, description |-> RestGuide, category |-> Tech] }

HostileUpdates == { [description |-> OnloadAlert] }

\* every combination of present and absent filters (<<>> absent, <<v>> present)
FilterOptions ==
  [name : {<<>>, << <<"e","b">> >>},
   category : {<<>>, <<Tech>>},
   status : {<<>>, <<"active">>},
   created_at : {<<>>, << [kind |-> "date", day |-> 0] >>},
   search : {<<>>, << <<"a","p","i">> >>}]

SpecialFilters ==
  { [name |-> <<>>, status |-> ""],
    [name |-> <<"%">>, created_at |-> [kind |-> "datetime", ts |-> 1]],
    [created_at |-> [kind |-> "invalid"]],
    [name |-> <<"_","p">>, search |-> <<"w","e","b">>, status |-> "inactive"] }

FilterSets ==
  {[k \in {x \in FilterKeys : o[x] # <<>>} |-> o[k][1]] : o \in FilterOptions}
    \cup SpecialFilters

Queries ==
  { NoFields,
    [status |-> "active", page |-> <<"2">>, limit |-> <<"1">>],
    [limit |-> <<"1">>],
    [search |-> <<"w","e","b">>, name |-> <<"_","p">>, page |-> <<"1">>, limit |-> <<"2">>],
    [created_at |-> [kind |-> "date", day |-> 0], category |-> Tech],
    [name |-> <<>>, page |-> <<"0">>],
    [name |-> <<>>],
    [limit |-> <<"1","0","1">>],
    [page |-> <<"1",".","5">>] }

(***************************************************************************)
(* Query Builder: ResourceService.getAll                                   *)
(***************************************************************************)
\* JavaScript truthiness of an optional text filter: present and not ''
Truthy(filters, k) ==
  /\ k \in DOMAIN filters
  /\ IF k = "status" THEN filters[k] # ""
     ELSE IF k = "created_at" THEN filters[k].kind # "empty"
     ELSE filters[k] # <<>>

\* DATE(x): calendar day of a timestamp; -1 stands for NULL
DateOfTimestamp(ts) == ts \div DayLen

DateOfParam(p) ==
  CASE p.kind = "date" -> p.day
    [] p.kind = "datetime" -> DateOfTimestamp(p.ts)
    [] OTHER -> -1

Wrap(v) == <<"%">> \o v \o <<"%">>

TextsOf(bodies, keys) == UNION {{b[k] : k \in DOMAIN b \cap keys} : b \in bodies}

\* the texts a request can store, and the texts a list request can ask for
StoredTexts ==
  TextsOf({xssClean(b) : b \in CreateBodies \cup UpdateBodies}, {"name", "description"})

AskedTexts == TextsOf({xssClean(q) : q \in FilterSets \cup Queries}, {"name", "search"})

\* column LIKE '%value%', tabulated over those texts
LikeAny == [t \in StoredTexts |-> [v \in AskedTexts |-> Like(t, Wrap(v))]]

\* search replacing the name filter instead of narrowing it
WhereClauseSearchOverName(filters, r) ==
  /\ (Truthy(filters, "name") /\ ~Truthy(filters, "search")) => LikeAny[r.name][filters.name]
  /\ Truthy(filters, "category") => r.category = filters.category
  /\ Truthy(filters, "status") => r.status = filters.status
  /\ Truthy(filters, "created_at") =>
        /\ DateOfParam(filters.created_at) # -1
        /\ DateOfTimestamp(r.created_at) = DateOfParam(filters.created_at)
  /\ Truthy(filters, "search") =>
        \/ LikeAny[r.name][filters.search]
        \/ LikeAny[r.description][filters.search]

WhereClause(filters, r) ==
  /\ Truthy(filters, "name") => LikeAny[r.name][filters.name]
  /\ Truthy(filters, "category") => r.category = filters.category
  /\ Truthy(filters, "status") => r.status = filters.status
  /\ Truthy(filters, "created_at") =>
        /\ DateOfParam(filters.created_at) # -1
        /\ DateOfTimestamp(r.created_at) = DateOfParam(filters.created_at)
  /\ Truthy(filters, "search") =>
        \/ LikeAny[r.name][filters.search]
        \/ LikeAny[r.description][filters.search]

Matching(rows, filters) == {rows[id] : id \in {k \in DOMAIN rows : WhereClause(filters, rows[k])}}

\* SELECT COUNT(*) as total FROM resources <where>, over the rows the shared
\* whereClause and params select
CountQuery(matching) == Cardinality(matching)

\* ORDER BY created_at DESC: rows with equal created_at come in an order the
\* statement does not fix, so every order of a tie group is a possible outcome.
RECURSIVE SortedOrders(_)
SortedOrders(S) ==
  IF S = {} THEN {<<>>}
  ELSE LET m == CHOOSE x \in S : \A y \in S : y.created_at <= x.created_at
           top == {x \in S : x.created_at = m.created_at}
       IN UNION {{<<x>> \o rest : rest \in SortedOrders(S \ {x})} : x \in top}

\* LIMIT that stops one row early
LimitOffsetShort(ord, limit, offset) == SubSeq(ord, offset + 1, Min(offset + limit, Len(ord)) - 1)

\* LIMIT ? OFFSET ?
LimitOffset(ord, limit, offset) == SubSeq(ord, offset + 1, Min(offset + limit, Len(ord)))

\* SELECT * FROM resources <where> ORDER BY created_at DESC LIMIT ? OFFSET ?
DataQuery(matching, limit, offset) ==
  {LimitOffset(ord, limit, offset) : ord \in SortedOrders(matching)}

\* Math.floor(total / limit) + 1
FloorPlusOne(a, b) == (a \div b) + 1

\* Math.ceil(total / limit)
CeilDiv(a, b) == (a + b - 1) \div b

Pagination(page, limit, total) ==
  LET totalPages == CeilDiv(total, limit)
  IN [page |-> page, limit |-> limit, total |-> total, totalPages |-> totalPages,
      hasNext |-> page < totalPages, hasPrev |-> page > 1]

Offset(page, limit) == (page - 1) * limit

\* the set of responses getAll can produce
getAll(rows, filters, pagination) ==
  LET page == IF pagination.page = 0 THEN DefaultPage ELSE pagination.page
      limit == IF pagination.limit = 0 THEN DefaultLimit ELSE pagination.limit
      offset == Offset(page, limit)
      matching == Matching(rows, filters)
      total == CountQuery(matching)
  IN {[data |-> d, pagination |-> Pagination(page, limit, total)] :
        d \in DataQuery(matching, limit, offset)}

(***************************************************************************)
(* Request parsing                                                         *)
(***************************************************************************)
DigitSeq == <<"0","1","2","3","4","5","6","7","8","9">>

DigitVal(c) == (CHOOSE i \in DOMAIN DigitSeq : DigitSeq[i] = c) - 1

RECURSIVE SkipSpaces(_)
SkipSpaces(s) == IF s # <<>> /\ IsSpace(Head(s)) THEN SkipSpaces(Tail(s)) ELSE s

RECURSIVE DigitPrefix(_, _, _)
DigitPrefix(s, acc, n) ==
  IF s # <<>> /\ Head(s) \in Digits
  THEN DigitPrefix(Tail(s), acc * 10 + DigitVal(Head(s)), n + 1)
  ELSE [v |-> acc, n |-> n]

\* parseInt(text, 10): leading blanks, an optional sign, the longest digit prefix
parseInt(text) ==
  LET t == SkipSpaces(text)
      neg == t # <<>> /\ Head(t) = "-"
      u == IF t # <<>> /\ Head(t) \in {"-", "+"} THEN Tail(t) ELSE t
      d == DigitPrefix(u, 0, 0)
  IN IF d.n = 0 THEN [nan |-> TRUE, v |-> 0]
     ELSE [nan |-> FALSE, v |-> IF neg THEN 0 - d.v ELSE d.v]

RECURSIVE Dec(_)
Dec(n) == IF n < 10 THEN <<DigitSeq[n + 1]>> ELSE Dec(n \div 10) \o <<DigitSeq[(n % 10) + 1]>>

(***************************************************************************)
(* Rate Limiter: express-rate-limit, windowMs 15 min, max 100, per client  *)
(***************************************************************************)
increment(c) ==
  LET expired == resetTime[c] <= clock
      totalHits == (IF expired THEN 0 ELSE hits[c]) + 1
  IN [totalHits |-> totalHits,
      resetTime |-> IF expired THEN clock + WindowSec ELSE resetTime[c]]

\* cap compared with >= instead of >
limiterOffByOne(c) ==
  LET client == increment(c)
  IN [hits |-> [hits EXCEPT ![c] = client.totalHits],
      resetTime |-> [resetTime EXCEPT ![c] = client.resetTime],
      pass |-> client.totalHits < MaxRequests]

\* keyGenerator returning one key for every client
limiterOneKey(c) ==
  LET client == increment(c)
  IN [hits |-> [d \in DOMAIN hits |-> client.totalHits],
      resetTime |-> [d \in DOMAIN resetTime |-> client.resetTime],
      pass |-> client.totalHits <= MaxRequests]

limiter(c) ==
  LET client == increment(c)
  IN [hits |-> [hits EXCEPT ![c] = client.totalHits],
      resetTime |-> [resetTime EXCEPT ![c] = client.resetTime],
      pass |-> client.totalHits <= MaxRequests]

(***************************************************************************)
(* Responses                                                               *)
(***************************************************************************)
NoPagination ==
  [page |-> 0, limit |-> 0, total |-> 0, totalPages |-> 0, hasNext |-> FALSE, hasPrev |-> FALSE]

Response(op, c, id, body, status, data, details) ==
  [op |-> op, client |-> c, id |-> id, body |-> body, status |-> status,
   data |-> data, details |-> details, pagination |-> NoPagination, filters |-> NoFields]

TooManyRequests(op, c) == Response(op, c, 0, NoFields, 429, <<>>, {})

\* middleware/errorHandler: an AppError answers with its own status code
errorHandler(op, c, id, status) == Response(op, c, id, NoFields, status, <<>>, {})


IdTexts == {Dec(i) : i \in 1..MaxId} \cup {<<"x">>, <<"1","x">>}

\* validate(schema) on the body the xss() middleware hands on, tabulated over
\* the request bodies
validateCreate ==
  [raw \in CreateBodies \cup HostileCreates |-> createResourceSchema(xssClean(raw))]

\* validate that calls next() although the schema reported errors
validateUpdateFallsThrough ==
  [raw \in UpdateBodies \cup HostileUpdates |->
     [errors |-> {}, value |-> StripUnknown(xssClean(raw))]]

validateUpdate ==
  [raw \in UpdateBodies \cup HostileUpdates |-> updateResourceSchema(xssClean(raw))]

\* no store-level update is between two of its statements
Idle == [stage |-> "idle", client |-> "c1", id |-> 0, data |-> NoFields, existing |-> <<>>]

(***************************************************************************)
(* Initial state: empty table, the client has used all but Headroom        *)
(* requests of its current window                                          *)
(***************************************************************************)
Init ==
  /\ store = <<>>
  /\ seq = 0
  /\ clock = 0
  /\ hits = [c \in Clients |-> MaxRequests - Headroom]
  /\ resetTime = [c \in Clients |-> WindowSec]
  /\ res = Response("init", "c1", 0, NoFields, 0, <<>>, {})
  /\ issued = {}
  /\ inflight = Idle
  /\ nodeEnv = "production"
  /\ variant = "enhanced"

\* the wall clock advances (CURRENT_TIMESTAMP has one-second resolution)
Tick ==
  /\ clock < MaxClock
  /\ clock' = clock + 1
  /\ res' = Response("tick", "c1", 0, NoFields, 0, <<>>, {})
  /\ UNCHANGED <<store, seq, hits, resetTime, issued, inflight, nodeEnv, variant>>

\* validate registered ahead of the limiter
MiddlewareValidateFirst(lim, errors) ==
  IF errors # {} THEN "validate" ELSE IF ~lim.pass THEN "limiter" ELSE "controller"

\* the middleware that ends the request: app.use('/api/', limiter) runs before
\* the router, whose routes run validate(schema) before the controller
Middleware(lim, errors) ==
  IF ~lim.pass THEN "limiter" ELSE IF errors # {} THEN "validate" ELSE "controller"

Limited(c, lim) ==
  /\ hits[c] < MaxRequests + Overshoot
  /\ UNCHANGED <<inflight, nodeEnv, variant>>
  /\ hits' = lim.hits
  /\ resetTime' = lim.resetTime

\* POST /api/resources
CreateRequest(c, raw) ==
  LET lim == limiter(c)
      v == validateCreate[raw]
  IN /\ Limited(c, lim)
     /\ IF Middleware(lim, v.errors) = "limiter"
        THEN /\ res' = TooManyRequests("create", c)
             /\ UNCHANGED <<store, seq, clock, issued>>
        ELSE IF Middleware(lim, v.errors) = "validate"
        THEN /\ res' = Response("create", c, 0, xssClean(raw), 400, <<>>, v.errors)
             /\ UNCHANGED <<store, seq, clock, issued>>
        ELSE LET r == create(store, seq, clock, v.value)
             IN /\ seq < MaxId
                /\ store' = r.rows
                /\ seq' = r.seq
                /\ res' = Response("create", c, r.result[1].id, v.value, 201, r.result, {})
                /\ issued' = issued \cup {r.result[1].id}
                /\ UNCHANGED clock

\* PUT /api/resources/:id
UpdateRequest(c, idText, raw) ==
  LET lim == limiter(c)
      v == validateUpdate[raw]
      id == parseInt(idText)
      r == update(store, id.v, clock, v.value)
  IN /\ Limited(c, lim)
     /\ UNCHANGED <<seq, clock, issued>>
     /\ IF Middleware(lim, v.errors) = "limiter"
        THEN res' = TooManyRequests("update", c) /\ UNCHANGED store
        ELSE IF Middleware(lim, v.errors) = "validate"
        THEN res' = Response("update", c, 0, xssClean(raw), 400, <<>>, v.errors) /\ UNCHANGED store
        ELSE IF id.nan
        THEN res' = errorHandler("update", c, 0, 400) /\ UNCHANGED store
        ELSE IF ~r.found
        THEN res' = errorHandler("update", c, id.v, 404) /\ UNCHANGED store
        ELSE /\ store' = r.rows
             /\ res' = Response("update", c, id.v, v.value, 200, r.result, {})

\* DELETE /api/resources/:id
DeleteRequest(c, idText) ==
  LET lim == limiter(c)
      id == parseInt(idText)
      r == delete(store, id.v)
  IN /\ Limited(c, lim)
     /\ UNCHANGED <<seq, clock, issued>>
     /\ IF ~lim.pass
        THEN res' = TooManyRequests("delete", c) /\ UNCHANGED store
        ELSE IF id.nan
        THEN res' = errorHandler("delete", c, 0, 400) /\ UNCHANGED store
        ELSE IF ~r.deleted
        THEN res' = errorHandler("delete", c, id.v, 404) /\ UNCHANGED store
        ELSE /\ store' = r.rows
             /\ res' = Response("delete", c, id.v, NoFields, 200, <<>>, {})

\* GET /api/resources/:id
GetRequest(c, idText) ==
  LET lim == limiter(c)
      id == parseInt(idText)
      r == getById(store, id.v)
  IN /\ Limited(c, lim)
     /\ UNCHANGED <<store, seq, clock, issued>>
     /\ IF ~lim.pass
        THEN res' = TooManyRequests("get", c)
        ELSE IF id.nan
        THEN res' = errorHandler("get", c, 0, 400)
        ELSE IF r = <<>>
        THEN res' = errorHandler("get", c, id.v, 404)
        ELSE res' = Response("get", c, id.v, NoFields, 200, r, {})

\* GET /api/resources
ListRequest(c, query) ==
  LET lim == limiter(c)
      cleaned == xssClean(query)
      filters == [k \in DOMAIN cleaned \cap FilterKeys |-> cleaned[k]]
      page == IF "page" \in DOMAIN cleaned /\ cleaned.page # <<>>
              THEN parseInt(cleaned.page) ELSE [nan |-> FALSE, v |-> DefaultPage]
      limit == IF "limit" \in DOMAIN cleaned /\ cleaned.limit # <<>>
               THEN parseInt(cleaned.limit) ELSE [nan |-> FALSE, v |-> DefaultLimit]
  IN /\ Limited(c, lim)
     /\ UNCHANGED <<store, seq, clock, issued>>
     /\ IF ~lim.pass
        THEN res' = TooManyRequests("list", c)
        ELSE IF page.nan \/ page.v < 1
        THEN res' = errorHandler("list", c, 0, 400)
        ELSE IF limit.nan \/ limit.v < 1 \/ limit.v > MaxLimit
        THEN res' = errorHandler("list", c, 0, 400)
        ELSE \E r \in getAll(store, filters, [page |-> page.v, limit |-> limit.v]) :
               res' = [Response("list", c, 0, NoFields, 200, r.data, {})
                         EXCEPT !.pagination = r.pagination, !.filters = filters]

\* scripts/clear.ts: DELETE FROM resources
ClearScript ==
  /\ DOMAIN store # {}
  /\ store' = <<>>
  /\ res' = Response("clear", "c1", 0, NoFields, 0, <<>>, {})
  /\ UNCHANGED <<seq, clock, hits, resetTime, issued, inflight, nodeEnv, variant>>

Next ==
  \/ Tick
  \/ \E c \in Clients, raw \in CreateBodies : CreateRequest(c, raw)
  \/ \E c \in Clients, idText \in IdTexts, raw \in UpdateBodies : UpdateRequest(c, idText, raw)
  \/ \E c \in Clients, idText \in IdTexts : DeleteRequest(c, idText)
  \/ \E c \in Clients, idText \in IdTexts : GetRequest(c, idText)
  \/ \E c \in Clients, query \in Queries : ListRequest(c, query)
  \/ ClearScript

Spec == Init /\ [][Next]_vars



(***************************************************************************)
(* The service after record 1 has been created and deleted again           *)
(***************************************************************************)
InitAfterDelete ==
  /\ store = <<>>
  /\ seq = 1
  /\ clock = 0
  /\ hits = [c \in Clients |-> MaxRequests - Headroom]
  /\ resetTime = [c \in Clients |-> WindowSec]
  /\ res = Response("delete", "c1", 1, NoFields, 200, <<>>, {})
  /\ issued = {1}
  /\ inflight = Idle
  /\ nodeEnv = "production"
  /\ variant = "enhanced"

SpecAfterDelete == InitAfterDelete /\ [][Next]_vars

(***************************************************************************)
(* Pagination over a populated table: n rows created one per second, the   *)
(* first two within the same second                                        *)
(***************************************************************************)
PageLimits == {1, 7, DefaultLimit, MaxLimit}

SeededRow(i) == InsertRow(i, Web, RestGuide, Tech, "active", Max(i - 1, 1))

InitPage ==
  \E n \in 0..MaxTotal :
    /\ store = [i \in 1..n |-> SeededRow(i)]
    /\ seq = n
    /\ clock = Max(n - 1, 1)
    /\ hits = [c \in Clients |-> MaxRequests - Headroom]
    /\ resetTime = [c \in Clients |-> WindowSec]
    /\ res = Response("init", "c1", 0, NoFields, 0, <<>>, {})
    /\ issued = 1..n
    /\ inflight = Idle
    /\ nodeEnv = "production"
    /\ variant = "enhanced"

NextPage ==
  \E c \in Clients, page \in 1..MaxPage, limit \in PageLimits :
    ListRequest(c, [page |-> Dec(page), limit |-> Dec(limit)])

SpecPage == InitPage /\ [][NextPage]_vars

(***************************************************************************)
(* Rate limiter over whole windows: no client has been seen yet            *)
(***************************************************************************)
InitRate ==
  /\ store = <<>>
  /\ seq = 0
  /\ clock = 0
  /\ hits = [c \in Clients |-> 0]
  /\ resetTime = [c \in Clients |-> 0]
  /\ res = Response("init", "c1", 0, NoFields, 0, <<>>, {})
  /\ issued = {}
  /\ inflight = Idle
  /\ nodeEnv = "production"
  /\ variant = "enhanced"

\* time passes up to the last second of a client's window, or to its end
Elapse(c, t) ==
  /\ t > clock
  /\ t <= MaxWindows * WindowSec
  /\ t \in {resetTime[c] - 1, resetTime[c]}
  /\ clock' = t
  /\ res' = Response("tick", "c1", 0, NoFields, 0, <<>>, {})
  /\ UNCHANGED <<store, seq, hits, resetTime, issued, inflight, nodeEnv, variant>>

NextRate ==
  \/ \E c \in Clients : ListRequest(c, NoFields)
  \/ \E c \in Clients : GetRequest(c, <<"1">>)
  \/ \E c \in Clients, t \in 1..(MaxWindows * WindowSec) : Elapse(c, t)

SpecRate == InitRate /\ [][NextRate]_vars

(***************************************************************************)
(* Several request-handling workers: every process evaluates               *)
(* rateLimit({windowMs, max, ...}) without a store option, so each has a   *)
(* MemoryStore of its own; the table in the SQLite file is common to all.  *)
(* A counter of the deployment is keyed by worker and client.              *)
(***************************************************************************)
Workers == {"w1", "w2"}

WorkerKeys == Workers \X Clients

InitWorkers ==
  /\ store = <<>>
  /\ seq = 0
  /\ clock = 0
  /\ hits = [k \in WorkerKeys |-> 0]
  /\ resetTime = [k \in WorkerKeys |-> 0]
  /\ res = Response("init", "c1", 0, NoFields, 0, <<>>, {})
  /\ issued = {}
  /\ inflight = Idle
  /\ nodeEnv = "production"
  /\ variant = "enhanced"

\* the balancer hands a request of client c to worker w
NextWorkers ==
  \/ \E k \in WorkerKeys : ListRequest(k, NoFields)
  \/ \E k \in WorkerKeys : GetRequest(k, <<"1">>)

SpecWorkers == InitWorkers /\ [][NextWorkers]_vars

(***************************************************************************)
(* ResourceService.update statement by statement. Inside one process the   *)
(* call runs to completion (better-sqlite3 is synchronous); the statements *)
(* of another process on the same database file, a second worker or the    *)
(* clear script, can fall between its SELECT, its UPDATE and its second     *)
(* SELECT, which no transaction holds together.                            *)
(***************************************************************************)
\* The records were created in second 0 and the race is played in second 1.
\* a re-read that hands back the row of the first read
updateRereadStale(rows, call) == call.existing

\* return this.getById(id)!
updateReread(rows, call) == getById(rows, call.id)

InitRace ==
  /\ store = [i \in 1..MaxId |-> InsertRow(i, Web, RestGuide, Tech, "active", 0)]
  /\ seq = MaxId
  /\ clock = 1
  /\ hits = [k \in WorkerKeys |-> MaxRequests - Headroom]
  /\ resetTime = [k \in WorkerKeys |-> WindowSec]
  /\ res = Response("init", "c1", 0, NoFields, 0, <<>>, {})
  /\ issued = 1..MaxId
  /\ inflight = Idle
  /\ nodeEnv = "production"
  /\ variant = "enhanced"

\* PUT /api/resources/:id up to the existence read of the service:
\* const existing = this.getById(id); if (!existing) return null
UpdateBegin(c, idText, raw) ==
  LET lim == limiter(c)
      v == validateUpdate[raw]
      id == parseInt(idText)
      existing == getById(store, id.v)
  IN /\ inflight.stage \in {"idle", "done"}
     /\ hits[c] < MaxRequests + Overshoot
     /\ hits' = lim.hits
     /\ resetTime' = lim.resetTime
     /\ UNCHANGED <<store, seq, clock, issued, nodeEnv, variant>>
     /\ IF ~lim.pass
        THEN res' = TooManyRequests("update", c) /\ inflight' = Idle
        ELSE IF v.errors # {}
        THEN /\ res' = Response("update", c, 0, xssClean(raw), 400, <<>>, v.errors)
             /\ inflight' = Idle
        ELSE IF id.nan
        THEN res' = errorHandler("update", c, 0, 400) /\ inflight' = Idle
        ELSE IF existing = <<>>
        THEN res' = errorHandler("update", c, id.v, 404) /\ inflight' = Idle
        ELSE /\ inflight' = [stage |-> "write", client |-> c, id |-> id.v,
                              data |-> v.value, existing |-> existing]
             /\ UNCHANGED res

\* if (fields.length === 0) return existing; otherwise
\* UPDATE resources SET ..., updated_at = CURRENT_TIMESTAMP WHERE id = ?
UpdateWrite ==
  /\ inflight.stage = "write"
  /\ UNCHANGED <<seq, clock, hits, resetTime, issued, nodeEnv, variant>>
  /\ IF DOMAIN inflight.data \cap Fields = {}
     THEN /\ res' = Response("update", inflight.client, inflight.id, inflight.data, 200,
                             inflight.existing, {})
          /\ inflight' = [inflight EXCEPT !.stage = "done"]
          /\ UNCHANGED store
     ELSE /\ store' = IF inflight.id \in DOMAIN store
                      THEN [store EXCEPT ![inflight.id] =
                              UpdateRow(store[inflight.id], inflight.data, clock)]
                      ELSE store
          /\ inflight' = [inflight EXCEPT !.stage = "reread"]
          /\ UNCHANGED res

\* return this.getById(id)!, then in the controller
\* if (!resource) throw new AppError(404, 'Resource not found')
UpdateReread ==
  /\ inflight.stage = "reread"
  /\ UNCHANGED <<store, seq, clock, hits, resetTime, issued, nodeEnv, variant>>
  /\ inflight' = [inflight EXCEPT !.stage = "done"]
  /\ LET resource == updateReread(store, inflight)
     IN res' = IF resource = <<>>
               THEN errorHandler("update", inflight.client, inflight.id, 404)
               ELSE Response("update", inflight.client, inflight.id, inflight.data, 200,
                             resource, {})

NextRace ==
  \/ \E c \in Clients, idText \in IdTexts, raw \in UpdateBodies :
       UpdateBegin(<<"w1", c>>, idText, raw)
  \/ UpdateWrite
  \/ UpdateReread
  \/ \E c \in Clients, idText \in IdTexts : DeleteRequest(<<"w2", c>>, idText)
  \/ ClearScript

SpecRace == InitRace /\ [][NextRace]_vars

(***************************************************************************)
(* Properties                                                              *)
(***************************************************************************)
Requests == {"create", "update", "delete", "get", "list"}

UpdateDone == res'.op = "update" /\ res'.status = 200

\* C1: a successful update with a non-empty payload sets exactly the supplied
\* fields of the addressed record; its other fields, its id and created_at,
\* and every other record stay as they were.
PartialUpdateFrame ==
  [][UpdateDone =>
       /\ DOMAIN res'.body \cap Fields # {}
       /\ DOMAIN store' = DOMAIN store
       /\ res'.id \in DOMAIN store
       /\ \A f \in Fields :
            store'[res'.id][f] = IF f \in DOMAIN res'.body THEN res'.body[f]
                                 ELSE store[res'.id][f]
       /\ store'[res'.id].id = store[res'.id].id
       /\ store'[res'.id].created_at = store[res'.id].created_at
       /\ \A k \in DOMAIN store \ {res'.id} : store'[k] = store[k]]_vars

PartialUpdateFrameWitness ==
  /\ res.op = "update" /\ res.status = 200
  /\ Cardinality(DOMAIN store) >= 2
  /\ "name" \in DOMAIN res.body /\ "status" \notin DOMAIN res.body
  /\ \E k \in DOMAIN store : store[k].name # res.body.name

\* C2 as stated: every successful update makes updated_at strictly greater
\* than it was, also within the second of the previous write.
UpdatedAtStrictlyIncreases ==
  [][UpdateDone => store'[res'.id].updated_at > store[res'.id].updated_at]_vars

\* C2 amended: a successful update sets updated_at to the current second of
\* the store clock; it never decreases, and it is strictly greater exactly
\* when the clock has passed the second of the record's previous write.
UpdatedAtRefreshed ==
  [][UpdateDone =>
       /\ store'[res'.id].updated_at = clock
       /\ store'[res'.id].updated_at >= store[res'.id].updated_at
       /\ (store'[res'.id].updated_at > store[res'.id].updated_at
             <=> clock > store[res'.id].updated_at)]_vars

UpdatedAtRefreshedWitness ==
  /\ res.op = "update" /\ res.status = 200
  /\ store[res.id].updated_at > store[res.id].created_at

\* C3: the id returned by a create is an integer >= 1 that no earlier create
\* returned, whether or not that earlier record still exists.
IdsNeverReused ==
  [][(res'.op = "create" /\ res'.status = 201) =>
       /\ res'.id \notin issued
       /\ res'.id >= 1
       /\ res'.data[1].id = res'.id
       /\ \A k \in DOMAIN store : k # res'.id]_vars

IdsNeverReusedWitness ==
  /\ res.op = "create" /\ res.status = 201
  /\ \E i \in issued : i # res.id /\ i \notin DOMAIN store

\* C4: the record a create returns has created_at equal to updated_at.
CreatedAtEqualsUpdatedAt ==
  (res.op = "create" /\ res.status = 201) =>
     res.data[1].created_at = res.data[1].updated_at

CreatedAtEqualsUpdatedAtWitness ==
  /\ res.op = "create" /\ res.status = 201
  /\ res.data[1].created_at > 0

\* C5: every stored record has updated_at >= created_at.
UpdatedNotBeforeCreated ==
  \A k \in DOMAIN store : store[k].updated_at >= store[k].created_at

UpdatedNotBeforeCreatedWitness ==
  \E k \in DOMAIN store : store[k].updated_at > store[k].created_at

BadStatus(body) == "status" \in DOMAIN body /\ body.status \notin StatusEnum

\* C6: every stored status is active, inactive or archived, and a create or
\* update request that reaches validation with any other status is answered
\* 400 and leaves the store as it was.
StatusAlwaysEnum ==
  /\ [](\A k \in DOMAIN store : store[k].status \in StatusEnum)
  /\ [][(res'.op \in {"create", "update"} /\ BadStatus(res'.body)) =>
          (res'.status = 400 /\ store' = store /\ seq' = seq)]_vars

StatusAlwaysEnumWitness ==
  /\ res.op = "update" /\ res.status = 400
  /\ BadStatus(res.body)
  /\ E("status", "any.only") \in res.details
  /\ DOMAIN store # {}

\* C7: for every filter combination the total of the count query equals the
\* number of rows the data query returns for page 1 with limit = total.
CountEqualsFullScan ==
  \A f \in FilterSets :
    \A r0 \in getAll(store, f, [page |-> 1, limit |-> DefaultLimit]) :
      \A r \in getAll(store, f, [page |-> 1, limit |-> r0.pagination.total]) :
        /\ Len(r.data) = r0.pagination.total
        /\ r.pagination.total = r0.pagination.total

CountEqualsFullScanWitness ==
  /\ res.op = "list" /\ res.status = 200
  /\ DOMAIN res.filters # {}
  /\ res.pagination.total >= 1
  /\ res.pagination.total < Cardinality(DOMAIN store)

ListDone == res.op = "list" /\ res.status = 200

\* C8: a list response for page >= 1 and limit in 1..100 carries the slice of
\* the ordering that starts at offset (page-1)*limit, at most limit rows,
\* totalPages = ceil(total/limit), hasNext = (page < totalPages) and
\* hasPrev = (page > 1); total 25 with limit 10 gives 3 pages and page 3
\* holds the 21st to 25th rows, hasNext false, hasPrev true.
PaginationBlock ==
  ListDone =>
    LET p == res.pagination
        first == (p.page - 1) * p.limit + 1
    IN /\ p.page >= 1 /\ p.limit >= 1 /\ p.limit <= MaxLimit
       /\ p.total = Cardinality(Matching(store, res.filters))
       /\ p.totalPages * p.limit >= p.total
       /\ (p.totalPages - 1) * p.limit < p.total \/ (p.total = 0 /\ p.totalPages = 0)
       /\ p.hasNext = (p.page < p.totalPages)
       /\ p.hasPrev = (p.page > 1)
       /\ Len(res.data) <= p.limit
       /\ \E ord \in SortedOrders(Matching(store, res.filters)) :
            /\ Len(res.data) = Max(0, Min(p.total, first + p.limit - 1) - first + 1)
            /\ \A i \in 1..Len(res.data) : res.data[i] = ord[first + i - 1]
       /\ (p.total = 25 /\ p.limit = 10) =>
            /\ p.totalPages = 3
            /\ p.page = 3 => /\ Len(res.data) = 5
                             /\ {res.data[i].id : i \in 1..5} = 1..5
                             /\ ~p.hasNext /\ p.hasPrev

PaginationBlockWitness ==
  /\ ListDone
  /\ res.pagination.total = 25 /\ res.pagination.limit = 10 /\ res.pagination.page = 3
  /\ Len(res.data) = 5

\* C9: for a fixed table, filter set and limit the pages 1..totalPages are
\* pairwise disjoint and together hold every matching record exactly once,
\* also when records share created_at.
PagesPartitionMatches ==
  \A f \in {NoFields, [status |-> "active"]} : \A limit \in 1..2 :
    LET total == CountQuery(Matching(store, f))
        pages == 1..CeilDiv(total, limit)
    IN \A p1 \in pages, p2 \in pages :
         \A r1 \in getAll(store, f, [page |-> p1, limit |-> limit]) :
           \A r2 \in getAll(store, f, [page |-> p2, limit |-> limit]) :
             p1 # p2 => Range(r1.data) \cap Range(r2.data) = {}

\* C10: within a window the client's requests 1..100 pass the limiter, the
\* 101st and every later one is answered 429, and the first request at or
\* after the end of the window opens a new window and passes.
FixedWindowLimit ==
  [][(res'.op \in Requests /\ hits' # hits) =>
       LET c == res'.client
           elapsed == clock >= resetTime[c]
           nth == IF elapsed THEN 1 ELSE hits[c] + 1
       IN /\ hits'[c] = nth
          /\ (res'.status = 429) <=> (nth > MaxRequests)
          /\ elapsed => (res'.status # 429 /\ resetTime'[c] = clock + WindowSec)
          /\ ~elapsed => resetTime'[c] = resetTime[c]]_vars

FixedWindowLimitWitness ==
  /\ res.status = 429
  /\ hits[res.client] > MaxRequests + 1
  /\ resetTime[res.client] > WindowSec

\* requests of the open window of counter k that passed the limiter
Accepted(k) == IF resetTime[k] > clock THEN Min(hits[k], MaxRequests) ELSE 0

RECURSIVE SumAccepted(_)
SumAccepted(K) ==
  IF K = {} THEN 0
  ELSE LET k == CHOOSE x \in K : TRUE IN Accepted(k) + SumAccepted(K \ {k})

\* C11: with more than one worker the requests of a client accepted within
\* one window, summed over all workers, never exceed the cap of 100.
SharedCounterAcrossWorkers ==
  \A c \in Clients : SumAccepted(Workers \X {c}) <= MaxRequests

\* the fields of a creation payload that break their rule: a required field
\* is missing, a text is shorter or longer than allowed or trips the security
\* filter, the category has a character outside its pattern, the status is
\* not one of the three values
Violating(body) ==
  {f \in TextFields : f \notin DOMAIN body}
  \cup {f \in DOMAIN body \cap {"name"} :
          Len(body[f]) < NameMin \/ Len(body[f]) > NameMax \/ securityCheck(body[f]) # {}}
  \cup {f \in DOMAIN body \cap {"description"} :
          \/ Len(body[f]) < DescriptionMin \/ Len(body[f]) > DescriptionMax
          \/ securityCheck(body[f]) # {}}
  \cup {f \in DOMAIN body \cap {"category"} :
          Len(body[f]) < CategoryMin \/ Len(body[f]) > CategoryMax \/ ~CategoryPattern(body[f])}
  \cup {f \in DOMAIN body \cap {"status"} : body[f] \notin StatusEnum}

\* creation payloads with each field absent, valid or invalid in one way
\* (<<>> absent, <<v>> present)
ProbeOptions ==
  [name : {<<>>, <<Ab>>, <<Web>>, << <<"a","<","b">> >>},
   description : {<<>>, <<RestGuide>>, <<Tech>>},
   category : {<<>>, <<Tech>>, <<Ab>>, << <<"a","!","b","c">> >>},
   status : {<<>>, <<"inactive">>, <<"deleted">>}]

ProbeRaw == {[k \in {x \in Fields : o[x] # <<>>} |-> o[k][1]] : o \in ProbeOptions}

ProbeBodies == {xssClean(b) : b \in ProbeRaw}

ProbeReported ==
  [b \in ProbeBodies |-> {e.field : e \in createResourceSchema(b).errors}]

ProbeViolating == [b \in ProbeBodies |-> Violating(b)]

ProbeAgreement == \A b \in ProbeBodies : ProbeReported[b] = ProbeViolating[b]

\* C12: a create request that reaches validation is answered 400 exactly when
\* some field of its payload breaks its rule, and the details of the 400
\* response name every such field, not only the first one (a name of length
\* 2 together with a missing description gives entries for both).
AllViolationsReported ==
  (res.op = "create" /\ res.status # 429) =>
     /\ (res.status = 400) <=> (Violating(res.body) # {})
     /\ (res.status = 400) => {d.field : d \in res.details} = Violating(res.body)
     /\ ProbeAgreement

AllViolationsReportedWitness ==
  /\ res.op = "create" /\ res.status = 400
  /\ Len(res.body.name) = 2 /\ "description" \notin DOMAIN res.body
  /\ {"name", "description"} \subseteq {d.field : d \in res.details}

AtLeastOneField == E("", "object.min")

\* C13: an update request that reaches validation with a payload holding no
\* recognised field (an empty object, or unknown keys only) is answered 400
\* with the 'At least one field must be provided for update' error, whatever
\* its id, and the store stays as it was.
EmptyUpdateRejected ==
  [][\A c \in Clients, idText \in IdTexts :
       (res'.op = "update" /\ UpdateRequest(c, idText, NoFields) /\ limiter(c).pass) =>
          /\ res'.status = 400
          /\ res'.details = {AtLeastOneField}
          /\ store' = store
          /\ updateResourceSchema([role |-> <<"x">>]).errors = {AtLeastOneField}]_vars

EmptyUpdateRejectedWitness ==
  /\ res.op = "update" /\ res.status = 400
  /\ res.body = NoFields
  /\ AtLeastOneField \in res.details
  /\ DOMAIN store # {}

\* the request bodies of the model that break a rule of their schema
InvalidCreate == {b \in CreateBodies : Violating(xssClean(b)) # {}}

InvalidUpdate ==
  {b \in UpdateBodies :
     DOMAIN b \cap Fields = {} \/ Violating(xssClean(b)) \cap DOMAIN b # {}}

\* C14: a create or update request whose payload breaks a rule and that
\* reaches validation is answered 400, and the table and its id sequence
\* are after the request what they were before it.
ValidationFailureFrame ==
  [][/\ \A c \in Clients, raw \in InvalidCreate :
          (res'.op = "create" /\ CreateRequest(c, raw) /\ limiter(c).pass) =>
             (res'.status = 400 /\ res'.details # {} /\ store' = store /\ seq' = seq)
     /\ \A c \in Clients, idText \in IdTexts, raw \in InvalidUpdate :
          (res'.op = "update" /\ UpdateRequest(c, idText, raw) /\ limiter(c).pass) =>
             (res'.status = 400 /\ res'.details # {} /\ store' = store /\ seq' = seq)
     /\ (res'.op \in {"create", "update"} /\ res'.status = 400) =>
          (store' = store /\ seq' = seq)]_vars

ValidationFailureFrameWitness ==
  /\ res.op = "create" /\ res.status = 400
  /\ E("description", "any.required") \in res.details
  /\ DOMAIN store # {}

\* C15: a delete request with a numeric id that passes the limiter is
\* answered 200 exactly when a row with that id was in the table, and then
\* exactly that row is removed; otherwise it is answered 404 and the table
\* is unchanged. An id that was deleted never comes back, so every later
\* delete of it, whatever happened in between, is answered 404.
DeleteOnceThenNotFound ==
  [][/\ \A c \in Clients, i \in 1..MaxId :
          (res'.op = "delete" /\ DeleteRequest(c, Dec(i)) /\ limiter(c).pass) =>
             /\ res'.status \in {200, 404}
             /\ (res'.status = 200) <=> (i \in DOMAIN store)
             /\ DOMAIN store' = DOMAIN store \ {i}
             /\ \A k \in DOMAIN store' : store'[k] = store[k]
             /\ (i \in issued \ DOMAIN store) => (res'.status = 404 /\ store' = store)
     /\ \A i \in issued \ DOMAIN store : i \notin DOMAIN store']_vars

DeleteOnceThenNotFoundWitness ==
  /\ res.op = "delete" /\ res.status = 404
  /\ res.id \in issued
  /\ \E k \in DOMAIN store : k > res.id /\ store[k].updated_at > store[k].created_at

\* a text that is a decimal numeral: one or more digits and nothing else
Numeric(t) == t # <<>> /\ \A i \in DOMAIN t : t[i] \in Digits

\* C16: a get-by-id request that passes the limiter has one of three
\* outcomes: 400 when the id is not numeric, 404 when it is numeric and no
\* record has it, 200 with the record when it is numeric and a record has it.
GetByIdThreeOutcomes ==
  [][\A c \in Clients, idText \in IdTexts :
       (GetRequest(c, idText) /\ limiter(c).pass) =>
          /\ store' = store
          /\ IF ~Numeric(idText) THEN res'.status = 400
             ELSE LET id == CHOOSE i \in 0..(MaxId + 1) : Dec(i) = idText
                  IN IF id \notin DOMAIN store THEN res'.status = 404
                     ELSE res'.status = 200 /\ res'.data = <<store[id]>>]_vars

\* page or limit text that is a decimal numeral of a value in lo..hi
InRange(t, lo, hi) == Numeric(t) /\ parseInt(t).v >= lo /\ parseInt(t).v <= hi

\* C17: a list request that passes the limiter and whose page is not an
\* integer >= 1 or whose limit is not an integer in 1..100 is answered 400;
\* otherwise it is answered 200 with the page and limit it asked for, the
\* defaults 1 and 10 standing in only for an absent parameter.
ListRejectsBadPaging ==
  [][\A c \in Clients, q \in Queries :
       (ListRequest(c, q) /\ limiter(c).pass) =>
          LET badPage == "page" \in DOMAIN q /\ ~InRange(q.page, 1, MaxLimit * MaxLimit)
              badLimit == "limit" \in DOMAIN q /\ ~InRange(q.limit, 1, MaxLimit)
          IN IF badPage \/ badLimit THEN res'.status = 400
             ELSE /\ res'.status = 200
                  /\ res'.pagination.page =
                       IF "page" \in DOMAIN q THEN parseInt(q.page).v ELSE DefaultPage
                  /\ res'.pagination.limit =
                       IF "limit" \in DOMAIN q THEN parseInt(q.limit).v ELSE DefaultLimit]_vars

\* the predicate of one filter on one record
FilterPredicate(k, v, r) ==
  CASE k = "name" -> LikeAny[r.name][v]
    [] k = "category" -> r.category = v
    [] k = "status" -> r.status = v
    [] k = "created_at" ->
         DateOfParam(v) # -1 /\ DateOfTimestamp(r.created_at) = DateOfParam(v)
    [] k = "search" -> LikeAny[r.name][v] \/ LikeAny[r.description][v]

\* the records that satisfy every filter that is present (not empty)
Satisfying(rows, f) ==
  {rows[id] : id \in {k \in DOMAIN rows :
     \A key \in FilterKeys : Truthy(f, key) => FilterPredicate(key, f[key], rows[k])}}

HasWildcard(v) == \E i \in DOMAIN v : v[i] \in {"%", "_"}

\* LIKE '%value%' is the substring test, letters compared without case, for
\* every value free of the LIKE wildcards
LikeIsSubstring ==
  \A t \in StoredTexts, v \in AskedTexts :
    ~HasWildcard(v) => (LikeAny[t][v] <=> (v = <<>> \/ HasSub(t, v)))

\* C18: for every filter combination the records the list query selects are
\* exactly the stored records that satisfy all filters that are present at
\* once (name and search both narrow the result), with no filter every
\* record is selected, and a list response reports their number as total
\* and carries only such records, all of them when they fit on the page.
ListIsConjunction ==
  /\ LikeIsSubstring
  /\ \A f \in FilterSets : Matching(store, f) = Satisfying(store, f)
  /\ Matching(store, NoFields) = {store[k] : k \in DOMAIN store}
  /\ ListDone =>
       /\ res.pagination.total = Cardinality(Satisfying(store, res.filters))
       /\ Range(res.data) \subseteq Satisfying(store, res.filters)
       /\ (res.pagination.page = 1 /\ res.pagination.limit >= res.pagination.total) =>
            Range(res.data) = Satisfying(store, res.filters)

ListIsConjunctionWitness ==
  /\ ListDone
  /\ Truthy(res.filters, "name") /\ Truthy(res.filters, "search")
  /\ Len(res.data) >= 1
  /\ \E k \in DOMAIN store :
       /\ FilterPredicate("search", res.filters.search, store[k])
       /\ ~FilterPredicate("name", res.filters.name, store[k])

ValidCreate == CreateBodies \ InvalidCreate

DefaultedStatus(raw) == IF "status" \in DOMAIN raw THEN raw.status ELSE "active"

\* a payload that passes validation reaches the controller with the values
\* the client sent, status defaulted to active
ProbeStoredAsSupplied ==
  \A b \in ProbeRaw :
    ProbeReported[xssClean(b)] = {} =>
      createResourceSchema(xssClean(b)).value =
        [f \in Fields |-> IF f = "status" THEN DefaultedStatus(b) ELSE b[f]]

\* C19: a create request with a valid payload that passes the limiter is
\* answered 201 with one record whose name, description and category are
\* the supplied values and whose status is the supplied one, or active when
\* none was supplied; the record is stored under the returned id, and a
\* get-by-id answered 200 returns the stored record.
CreateReturnsSupplied ==
  [][/\ \A c \in Clients, raw \in ValidCreate :
          (res'.op = "create" /\ CreateRequest(c, raw) /\ limiter(c).pass) =>
             /\ res'.status = 201
             /\ Len(res'.data) = 1
             /\ \A f \in TextFields : res'.data[1][f] = raw[f]
             /\ res'.data[1].status = DefaultedStatus(raw)
             /\ res'.data[1].id = res'.id
             /\ res'.id \notin DOMAIN store
             /\ getById(store', res'.id) = res'.data
             /\ ProbeStoredAsSupplied
     /\ (res'.op = "get" /\ res'.status = 200) => res'.data = <<store'[res'.id]>>]_vars

CreateReturnsSuppliedWitness ==
  /\ res.op = "create" /\ res.status = 201
  /\ res.data[1].status = "inactive"
  /\ \E k \in DOMAIN store : store[k].status = "active" /\ k # res.id
  /\ store[res.id] = res.data[1]

\* C20: when the record of an update in progress is deleted after the
\* update's existence read, before its write or before its re-read, the
\* write adds no row, the request is answered 404 at the re-read, and the
\* record stays deleted; an update answered 200 carries the stored record.
UpdateLosesRaceAsNotFound ==
  [][/\ (inflight.stage = "write" /\ inflight' # inflight /\ inflight.id \notin DOMAIN store) =>
          (store' = store /\ inflight'.stage = "reread" /\ res' = res)
     /\ (inflight.stage = "reread" /\ inflight' # inflight /\ inflight.id \notin DOMAIN store) =>
          (res'.op = "update" /\ res'.status = 404 /\ res'.id = inflight.id /\ store' = store)
     /\ (res'.op = "update" /\ res'.status = 200 /\ res' # res) =>
          res'.data = <<store'[res'.id]>>
     /\ \A i \in issued \ DOMAIN store : i \notin DOMAIN store']_vars

UpdateLosesRaceAsNotFoundWitness ==
  /\ inflight.stage = "done"
  /\ inflight.existing # <<>>
  /\ res.op = "update" /\ res.status = 404 /\ res.id = inflight.id
  /\ inflight.id \notin DOMAIN store
  /\ DOMAIN store # {}

(***************************************************************************)
(* Security filter at validation                                           *)
(***************************************************************************)
\* the name and description of a body, as the client sent it, on which
\* securityCheck reports an issue
HostileFields ==
  [raw \in CreateBodies \cup HostileCreates \cup UpdateBodies \cup HostileUpdates |->
     {f \in DOMAIN raw \cap {"name", "description"} : securityCheck(raw[f]) # {}}]

\* the service receiving hostile bodies among the others
NextScreen ==
  \/ Tick
  \/ \E c \in Clients, raw \in CreateBodies \cup HostileCreates : CreateRequest(c, raw)
  \/ \E c \in Clients, idText \in IdTexts, raw \in UpdateBodies \cup HostileUpdates :
       UpdateRequest(c, idText, raw)
  \/ \E c \in Clients, idText \in IdTexts : DeleteRequest(c, idText)

SpecScreen == Init /\ [][NextScreen]_vars

\* C21: a create or update request that passes the limiter and whose name or
\* description triggers the security filter is answered 400 with a
\* string.security error for each such field, and the table and the id
\* sequence are left as they were.
HostileInputRejected ==
  [][\A c \in Clients :
       /\ \A raw \in CreateBodies \cup HostileCreates :
            (/\ res'.op = "create"
             /\ HostileFields[raw] # {}
             /\ CreateRequest(c, raw)
             /\ limiter(c).pass)
            => /\ res'.status = 400
               /\ \A f \in HostileFields[raw] : E(f, "string.security") \in res'.details
               /\ store' = store
               /\ seq' = seq
       /\ \A idText \in IdTexts, raw \in UpdateBodies \cup HostileUpdates :
            (/\ res'.op = "update"
             /\ HostileFields[raw] # {}
             /\ UpdateRequest(c, idText, raw)
             /\ limiter(c).pass)
            => /\ res'.status = 400
               /\ \A f \in HostileFields[raw] : E(f, "string.security") \in res'.details
               /\ store' = store
               /\ seq' = seq]_vars

\* a create naming <script>alert(1)</script> was rejected for its name while a
\* record is stored
HostileInputRejectedWitness ==
  /\ res.op = "create"
  /\ res.status = 400
  /\ "name" \in DOMAIN res.body
  /\ res.body.name = EscapeLt(ScriptAlert)
  /\ E("name", "string.security") \in res.details
  /\ DOMAIN store # {}

(***************************************************************************)
(* Store failures: a statement of the database driver throws               *)
(***************************************************************************)
\* process.env.NODE_ENV
NodeEnvs == {"development", "production", "unset"}

\* the service with the security middleware, and the simpler service
Variants == {"enhanced", "simple"}

Generic == "Internal server error"

NoThrow == [isError |-> FALSE, message |-> ""]

\* what stmt.run() throws when the database file cannot be written
Thrown ==
  { [isError |-> TRUE, message |-> "attempt to write a readonly database"],
    [isError |-> TRUE, message |-> "database or disk is full"] }

\* what express.json() passes to next() on a malformed body
ParseErrors == { [isError |-> TRUE, message |-> "Unexpected end of JSON input"] }

\* res.status(500).json({success: false, error, message})
Failure(op, c, status, error, message, thrown) ==
  [op |-> op, client |-> c, status |-> status, error |-> error,
   message |-> message, thrown |-> thrown]

\* middleware/errorHandler on an error that is no AppError
errorHandlerInternal(op, c, thrown) ==
  Failure(op, c, 500, <<Generic>>,
          IF nodeEnv = "development" THEN <<thrown.message>> ELSE <<>>, thrown)

\* !data.name
Falsy(data, k) == k \notin DOMAIN data \/ data[k] = <<>>

\* POST /api/resources of the simpler service: no limiter, no schema
CreateSimple(c, raw, thrown) ==
  /\ variant = "simple"
  /\ UNCHANGED <<clock, hits, resetTime, inflight, nodeEnv, variant>>
  /\ IF Falsy(raw, "name") \/ Falsy(raw, "description") \/ Falsy(raw, "category")
     THEN /\ res' = Failure("create", c, 400, <<"Missing required fields">>, <<>>, NoThrow)
          /\ UNCHANGED <<store, seq, issued>>
     ELSE IF thrown # NoThrow
     THEN /\ res' = Failure("create", c, 500,
                            <<IF thrown.isError THEN thrown.message ELSE Generic>>,
                            <<>>, thrown)
          /\ UNCHANGED <<store, seq, issued>>
     ELSE LET r == create(store, seq, clock, raw)
          IN /\ seq < MaxId
             /\ store' = r.rows
             /\ seq' = r.seq
             /\ res' = Response("create", c, r.result[1].id, raw, 201, r.result, {})
             /\ issued' = issued \cup {r.result[1].id}

\* the error handler of the simpler server, reached by next(err)
ServerErrorSimple(c, thrown) ==
  /\ variant = "simple"
  /\ res' = Failure("error", c, 500, <<Generic>>,
                    IF nodeEnv = "development" THEN <<thrown.message>> ELSE <<>>, thrown)
  /\ UNCHANGED <<store, seq, clock, hits, resetTime, issued, inflight, nodeEnv, variant>>

\* POST /api/resources: catch (error) { next(error) }
CreateEnhanced(c, raw, thrown) ==
  LET lim == limiter(c)
  IN /\ variant = "enhanced"
     /\ IF thrown = NoThrow \/ ~lim.pass \/ validateCreate[raw].errors # {}
        THEN CreateRequest(c, raw)
        ELSE /\ Limited(c, lim)
             /\ res' = errorHandlerInternal("create", c, thrown)
             /\ UNCHANGED <<store, seq, clock, issued>>

InitFail ==
  /\ store = <<>>
  /\ seq = 0
  /\ clock = 0
  /\ hits = [c \in Clients |-> MaxRequests - Headroom]
  /\ resetTime = [c \in Clients |-> WindowSec]
  /\ res = Response("init", "c1", 0, NoFields, 0, <<>>, {})
  /\ issued = {}
  /\ inflight = Idle
  /\ nodeEnv \in NodeEnvs
  /\ variant \in Variants

NextFail ==
  \/ \E c \in Clients, raw \in CreateBodies, thrown \in Thrown \cup {NoThrow} :
       CreateSimple(c, raw, thrown)
  \/ \E c \in Clients, thrown \in ParseErrors : ServerErrorSimple(c, thrown)
  \/ \E c \in Clients, raw \in CreateBodies, thrown \in Thrown \cup {NoThrow} :
       CreateEnhanced(c, raw, thrown)

SpecFail == InitFail /\ [][NextFail]_vars

\* the thrown error's own message is part of the response body
Leaks(r) == r.thrown.message \in Range(r.error) \cup Range(r.message)

\* C22: a 500 response carries the generic error text, and the message of the
\* underlying error is part of it only when NODE_ENV is development.
InternalErrorGeneric ==
  res.status = 500 =>
    /\ res.error = <<Generic>>
    /\ Leaks(res) => nodeEnv = "development"

(***************************************************************************)
(* The limiter ends the request                                            *)
(***************************************************************************)
RequestOps == {"create", "update", "delete", "get", "list"}

\* C23: a request that the limiter refuses is answered 429 with
\* the limiter's body and nothing of validation (no details, no echoed body)
\* or of the controller (no data); the table, the id sequence and the set of
\* issued ids are left as they were.
LimitedRequestStopsAtLimiter ==
  [][\A c \in Clients :
       (res'.op \in RequestOps /\ res'.client = c /\ ~limiter(c).pass)
       => /\ res' = TooManyRequests(res'.op, c)
          /\ store' = store
          /\ seq' = seq
          /\ issued' = issued]_vars

\* a create was refused by the limiter while a record is stored
LimitedRequestStopsAtLimiterWitness ==
  /\ res.op = "create"
  /\ res.status = 429
  /\ hits["c1"] > MaxRequests
  /\ DOMAIN store # {}

(***************************************************************************)
(* The request pipeline, one middleware at a time (server.ts)              *)
(***************************************************************************)
\* app.use(...) in registration order, then the route's own middleware
Stack ==
  <<"helmet", "json", "urlencoded", "mongoSanitize", "xss", "hpp", "cors",
    "limiter", "logger", "validate", "controller">>

StageIndex(stage) ==
  IF stage = "idle" THEN 0
  ELSE IF stage = "done" THEN Len(Stack) + 1
  ELSE CHOOSE i \in DOMAIN Stack : Stack[i] = stage

\* router.post and router.put carry validate(schema); the other routes do not
Validated(op) == op \in {"create", "update"}

\* the stage next() hands the request to
Successor(stage, op) ==
  LET nxt == Stack[StageIndex(stage) + 1]
  IN IF nxt = "validate" /\ ~Validated(op) THEN "controller" ELSE nxt

PipeIdle ==
  [stage |-> "idle", client |-> "c1", op |-> "none", idText |-> <<>>, raw |-> NoFields,
   malformed |-> FALSE, query |-> NoFields, body |-> <<>>, helmet |-> FALSE, sent |-> 0]

PipeIdTexts == {Dec(1), Dec(MaxId), <<"x">>}

PipeQueries == {NoFields, [page |-> <<"0">>]}

Request(op, idText, raw, malformed, query) ==
  [op |-> op, idText |-> idText, raw |-> raw, malformed |-> malformed, query |-> query]

\* the requests a client sends; a malformed one carries text that is not JSON
PipeRequests ==
  {Request("create", <<>>, raw, FALSE, NoFields) : raw \in CreateBodies}
    \cup {Request("update", idText, raw, FALSE, NoFields) :
            idText \in PipeIdTexts, raw \in UpdateBodies}
    \cup {Request(op, <<>>, NoFields, TRUE, NoFields) : op \in {"create"}}
    \cup {Request("update", Dec(1), NoFields, TRUE, NoFields)}
    \cup {Request(op, idText, NoFields, FALSE, NoFields) :
            op \in {"delete", "get"}, idText \in PipeIdTexts}
    \cup {Request("list", <<>>, NoFields, FALSE, query) : query \in PipeQueries}

At(stage) == inflight.stage = stage

\* res.json(...): a response is written and the request is over
Respond(r) ==
  /\ res' = r
  /\ inflight' = [inflight EXCEPT !.stage = "done", !.sent = @ + 1]

\* next()
PassOn == inflight' = [inflight EXCEPT !.stage = Successor(inflight.stage, inflight.op)]

\* a request arrives on the socket
Receive(c, rq) ==
  /\ inflight.stage \in {"idle", "done"}
  /\ hits[c] < MaxRequests + Overshoot
  /\ rq.op = "create" => seq < MaxId
  /\ inflight' = [PipeIdle EXCEPT !.stage = Stack[1], !.client = c, !.op = rq.op,
                    !.idText = rq.idText, !.raw = rq.raw, !.malformed = rq.malformed,
                    !.query = rq.query]
  /\ res' = Response("receive", c, 0, NoFields, 0, <<>>, {})
  /\ UNCHANGED <<store, seq, clock, hits, resetTime, issued, nodeEnv, variant>>

\* app.use(helmet(...)): sets the security headers
Helmet ==
  /\ At("helmet")
  /\ inflight' = [inflight EXCEPT !.stage = Successor("helmet", inflight.op), !.helmet = TRUE]
  /\ UNCHANGED <<store, seq, clock, hits, resetTime, res, issued, nodeEnv, variant>>

\* app.use(express.json({ limit: '10kb' })): a body that does not parse goes to
\* the error handler with next(err)
JsonParser ==
  /\ At("json")
  /\ IF inflight.malformed
     THEN \E status \in {400, 500} :
            Respond(errorHandler(inflight.op, inflight.client, 0, status))
     ELSE /\ inflight' = [inflight EXCEPT !.stage = Successor("json", inflight.op),
                                          !.body = <<inflight.raw>>]
          /\ UNCHANGED res
  /\ UNCHANGED <<store, seq, clock, hits, resetTime, issued, nodeEnv, variant>>

\* app.use(express.urlencoded({ extended: true, limit: '10kb' })): the body is JSON
Urlencoded ==
  /\ At("urlencoded")
  /\ PassOn
  /\ UNCHANGED <<store, seq, clock, hits, resetTime, res, issued, nodeEnv, variant>>

\* app.use(mongoSanitize()): no key of the bodies starts with $ or holds a dot
MongoSanitize ==
  /\ At("mongoSanitize")
  /\ PassOn
  /\ UNCHANGED <<store, seq, clock, hits, resetTime, res, issued, nodeEnv, variant>>

\* app.use(xss())
XssClean ==
  /\ At("xss")
  /\ inflight' = [inflight EXCEPT !.stage = Successor("xss", inflight.op),
                                  !.body = <<xssClean(inflight.body[1])>>,
                                  !.query = xssClean(inflight.query)]
  /\ UNCHANGED <<store, seq, clock, hits, resetTime, res, issued, nodeEnv, variant>>

\* app.use(hpp(...)): no parameter is given twice
Hpp ==
  /\ At("hpp")
  /\ PassOn
  /\ UNCHANGED <<store, seq, clock, hits, resetTime, res, issued, nodeEnv, variant>>

\* app.use(cors(...)): sets the CORS headers
Cors ==
  /\ At("cors")
  /\ PassOn
  /\ UNCHANGED <<store, seq, clock, hits, resetTime, res, issued, nodeEnv, variant>>

\* app.use('/api/', limiter)
RateLimit ==
  LET lim == limiter(inflight.client)
  IN /\ At("limiter")
     /\ hits' = lim.hits
     /\ resetTime' = lim.resetTime
     /\ IF lim.pass THEN PassOn /\ UNCHANGED res
        ELSE Respond(TooManyRequests(inflight.op, inflight.client))
     /\ UNCHANGED <<store, seq, clock, issued, nodeEnv, variant>>

\* request logging middleware
Logger ==
  /\ At("logger")
  /\ PassOn
  /\ UNCHANGED <<store, seq, clock, hits, resetTime, res, issued, nodeEnv, variant>>

\* validate without the return after res.status(400).json(...)
AfterValidateFallsThrough(errors) == "controller"

\* validate: return after the 400 response, next() otherwise
AfterValidate(errors) == IF errors # {} THEN "done" ELSE "controller"

\* validate(schema)
Validate ==
  LET body == inflight.body[1]
      v == IF inflight.op = "create" THEN createResourceSchema(body)
           ELSE updateResourceSchema(body)
  IN /\ At("validate")
     /\ IF v.errors # {}
        THEN /\ res' = Response(inflight.op, inflight.client, 0, body, 400, <<>>, v.errors)
             /\ inflight' = [inflight EXCEPT !.stage = AfterValidate(v.errors), !.sent = @ + 1]
        ELSE /\ inflight' = [inflight EXCEPT !.stage = AfterValidate(v.errors),
                                             !.body = <<v.value>>]
             /\ UNCHANGED res
     /\ UNCHANGED <<store, seq, clock, hits, resetTime, issued, nodeEnv, variant>>

Keep(r) == [rows |-> store, seq |-> seq, res |-> r]

\* ResourceController: what the handler of op writes and answers
Handle(c, op, idText, value, query) ==
  LET id == parseInt(idText)
  IN CASE op = "create" ->
            LET r == create(store, seq, clock, value)
            IN {[rows |-> r.rows, seq |-> r.seq,
                 res |-> Response("create", c, r.result[1].id, value, 201, r.result, {})]}
       [] op = "update" ->
            LET r == update(store, id.v, clock, value)
            IN IF id.nan THEN {Keep(errorHandler("update", c, 0, 400))}
               ELSE IF ~r.found THEN {Keep(errorHandler("update", c, id.v, 404))}
               ELSE {[rows |-> r.rows, seq |-> seq,
                      res |-> Response("update", c, id.v, value, 200, r.result, {})]}
       [] op = "delete" ->
            LET r == delete(store, id.v)
            IN IF id.nan THEN {Keep(errorHandler("delete", c, 0, 400))}
               ELSE IF ~r.deleted THEN {Keep(errorHandler("delete", c, id.v, 404))}
               ELSE {[rows |-> r.rows, seq |-> seq,
                      res |-> Response("delete", c, id.v, NoFields, 200, <<>>, {})]}
       [] op = "get" ->
            LET r == getById(store, id.v)
            IN IF id.nan THEN {Keep(errorHandler("get", c, 0, 400))}
               ELSE IF r = <<>> THEN {Keep(errorHandler("get", c, id.v, 404))}
               ELSE {Keep(Response("get", c, id.v, NoFields, 200, r, {}))}
       [] OTHER ->
            LET filters == [k \in DOMAIN query \cap FilterKeys |-> query[k]]
                page == IF "page" \in DOMAIN query /\ query.page # <<>>
                        THEN parseInt(query.page) ELSE [nan |-> FALSE, v |-> DefaultPage]
                limit == IF "limit" \in DOMAIN query /\ query.limit # <<>>
                         THEN parseInt(query.limit) ELSE [nan |-> FALSE, v |-> DefaultLimit]
            IN IF page.nan \/ page.v < 1 THEN {Keep(errorHandler("list", c, 0, 400))}
               ELSE IF limit.nan \/ limit.v < 1 \/ limit.v > MaxLimit
               THEN {Keep(errorHandler("list", c, 0, 400))}
               ELSE {Keep([Response("list", c, 0, NoFields, 200, r.data, {})
                             EXCEPT !.pagination = r.pagination, !.filters = filters]) :
                       r \in getAll(store, filters, [page |-> page.v, limit |-> limit.v])}

\* the route's controller method
Controller ==
  /\ At("controller")
  /\ \E o \in Handle(inflight.client, inflight.op, inflight.idText,
                     IF inflight.body = <<>> THEN NoFields ELSE inflight.body[1],
                     inflight.query) :
       /\ store' = o.rows
       /\ seq' = o.seq
       /\ issued' = issued \cup (DOMAIN o.rows \ DOMAIN store)
       /\ Respond(o.res)
  /\ UNCHANGED <<clock, hits, resetTime, nodeEnv, variant>>

InitPipeline ==
  /\ store = <<>>
  /\ seq = 0
  /\ clock = 0
  /\ hits = [c \in Clients |-> MaxRequests - Headroom]
  /\ resetTime = [c \in Clients |-> WindowSec]
  /\ res = Response("init", "c1", 0, NoFields, 0, <<>>, {})
  /\ issued = {}
  /\ inflight = PipeIdle
  /\ nodeEnv = "production"
  /\ variant = "enhanced"

\* the steps Express takes on its own once a request is received
Advance ==
  \/ Helmet
  \/ JsonParser
  \/ Urlencoded
  \/ MongoSanitize
  \/ XssClean
  \/ Hpp
  \/ Cors
  \/ RateLimit
  \/ Logger
  \/ Validate
  \/ Controller

NextPipeline ==
  \/ \E c \in Clients, rq \in PipeRequests : Receive(c, rq)
  \/ Advance

SpecPipeline == InitPipeline /\ [][NextPipeline]_vars

\* every middleware and handler here is synchronous and hands on with next()
\* in the same tick, so a received request is never left waiting
SpecPipelineFair == SpecPipeline /\ WF_vars(Advance)

\* C24: the limiter is the first stage: a request it refuses has had no
\* security headers set and no body parsed or sanitized.
LimiterIsFirstStage ==
  (At("done") /\ res.status = 429) => (~inflight.helmet /\ inflight.body = <<>>)

(***************************************************************************)
(* ResourceService called directly                                         *)
(***************************************************************************)
\* the DTOs a caller hands to create and update; the last two carry no
\* updatable field
ServiceCreates ==
  { [name |-> Web, description |-> RestGuide, category |-> Tech],
    [name |-> Api, description |-> WebManual, category |-> Ops, status |-> "inactive"] }

ServiceUpdates ==
  { [status |-> "archived"],
    [name |-> Api, category |-> Ops],
    NoFields,
    [id |-> 7] }

ServiceIds == 1..(MaxId + 1)

\* what a call of the service returned, with its arguments
Returned(op, id, data, result) == [op |-> op, id |-> id, body |-> data, result |-> result]

\* resourceService.create(data)
ServiceCreate(data) ==
  LET r == create(store, seq, clock, data)
  IN /\ seq < MaxId
     /\ store' = r.rows
     /\ seq' = r.seq
     /\ issued' = issued \cup {r.seq}
     /\ res' = Returned("service.create", r.seq, data, r.result)
     /\ UNCHANGED <<clock, hits, resetTime, inflight, nodeEnv, variant>>

\* resourceService.update(id, data)
ServiceUpdate(id, data) ==
  LET r == update(store, id, clock, data)
  IN /\ store' = r.rows
     /\ res' = Returned("service.update", id, data, r.result)
     /\ UNCHANGED <<seq, clock, hits, resetTime, issued, inflight, nodeEnv, variant>>

\* resourceService.delete(id)
ServiceDelete(id) ==
  LET r == delete(store, id)
  IN /\ store' = r.rows
     /\ res' = Returned("service.delete", id, NoFields, IF r.deleted THEN <<TRUE>> ELSE <<FALSE>>)
     /\ UNCHANGED <<seq, clock, hits, resetTime, issued, inflight, nodeEnv, variant>>

NextStore ==
  \/ Tick
  \/ \E data \in ServiceCreates : ServiceCreate(data)
  \/ \E id \in ServiceIds, data \in ServiceUpdates : ServiceUpdate(id, data)
  \/ \E id \in ServiceIds : ServiceDelete(id)

SpecStore == Init /\ [][NextStore]_vars

\* C25: update called on the id of a stored record with no updatable field
\* returns that record as stored and writes nothing: the table, updated_at
\* included, is left as it was.
EmptyUpdateReturnsExisting ==
  [][\A id \in DOMAIN store :
       (/\ res'.op = "service.update"
        /\ res'.id = id
        /\ DOMAIN res'.body \cap Fields = {})
       => /\ store' = store
          /\ res'.result = <<store[id]>>]_vars

\* update with no updatable field returned a record last written before now
EmptyUpdateReturnsExistingWitness ==
  /\ res.op = "service.update"
  /\ DOMAIN res.body \cap Fields = {}
  /\ res.result # <<>>
  /\ res.result[1].updated_at < clock
  /\ store[res.id] = res.result[1]

(***************************************************************************)
(* Update of an id that is not stored                                      *)
(***************************************************************************)
\* C26: update on an id that matches no record reports not found, for every
\* payload, without touching the table; the handler answers such a request
\* 404 and leaves the table and the id sequence as they were.
UpdateMissingIsNotFound ==
  [][res'.op = "update" =>
       /\ \A id \in 1..(MaxId + 1), raw \in UpdateBodies :
            id \notin DOMAIN store
            => update(store, id, clock, raw) = [rows |-> store, found |-> FALSE, result |-> <<>>]
       /\ \A c \in Clients, idText \in IdTexts, raw \in UpdateBodies :
            (/\ validateUpdate[raw].errors = {}
             /\ ~parseInt(idText).nan
             /\ parseInt(idText).v \notin DOMAIN store
             /\ limiter(c).pass
             /\ UpdateRequest(c, idText, raw))
            => /\ res'.status = 404
               /\ store' = store
               /\ seq' = seq]_vars

\* an update of an id that is not stored was answered 404 while another record
\* is stored
UpdateMissingIsNotFoundWitness ==
  /\ res.op = "update"
  /\ res.status = 404
  /\ res.id \notin DOMAIN store
  /\ DOMAIN store # {}

(***************************************************************************)
(* One response per request                                                *)
(***************************************************************************)
InProgress == inflight.stage \notin {"idle", "done"}

\* C27: a received request passes the stages in order, no stage twice, and
\* ends with exactly one response: none is written while it is in progress,
\* one has been written when it is over, and it does get over.
RequestEndsOnce ==
  /\ [](InProgress => inflight.sent = 0)
  /\ [](At("done") => inflight.sent = 1)
  /\ [][InProgress => StageIndex(inflight'.stage) > StageIndex(inflight.stage)]_vars
  /\ (At(Stack[1]) ~> At("done"))

\* a create went through every stage and was answered once, with 201
RequestEndsOnceWitness ==
  /\ At("done")
  /\ inflight.op = "create"
  /\ inflight.sent = 1
  /\ res.status = 201
  /\ DOMAIN store # {}

(***************************************************************************)
(* Echoed filters                                                          *)
(***************************************************************************)
\* the filter keys for which getAll adds a condition to the WHERE clause
Applied(filters) == {k \in FilterKeys : Truthy(filters, k)}

\* C28: the filters block of a list response holds exactly the keys whose
\* condition was applied to the query.
EchoedFiltersAreApplied ==
  ListDone => DOMAIN res.filters = Applied(res.filters)

(***************************************************************************)
(* Two clients: the limiter keys its counters by req.ip                    *)
(***************************************************************************)
IpClients == {"c1", "c2"}

InitClients ==
  /\ store = <<>>
  /\ seq = 0
  /\ clock = 0
  /\ hits = [c \in IpClients |-> MaxRequests - Headroom]
  /\ resetTime = [c \in IpClients |-> WindowSec]
  /\ res = Response("init", "c1", 0, NoFields, 0, <<>>, {})
  /\ issued = {}
  /\ inflight = Idle
  /\ nodeEnv = "production"
  /\ variant = "enhanced"

\* the clients that send: those within Headroom of the cap or beyond it, and
\* those whose window is over
Sending(c) == clock >= resetTime[c] \/ hits[c] >= MaxRequests - Headroom

ClientList(c) == Sending(c) /\ ListRequest(c, NoFields)

ClientGet(c) == Sending(c) /\ GetRequest(c, <<"1">>)

\* time passes to the last second of the client's window, or to its end
WindowPasses(c) == \E t \in {resetTime[c] - 1, resetTime[c]} : Elapse(c, t)

NextClients ==
  \/ \E c \in IpClients : ClientList(c)
  \/ \E c \in IpClients : ClientGet(c)
  \/ \E c \in IpClients : WindowPasses(c)

SpecClients == InitClients /\ [][NextClients]_vars

\* C29: a request of one client leaves the counter and the window of every
\* other client as they were, and whether it is answered 429 depends on its
\* own counter and window alone.
ClientCountersIndependent ==
  [][\A c \in IpClients :
       (res'.op \in RequestOps /\ res'.client = c)
       => /\ \A d \in IpClients \ {c} : hits'[d] = hits[d] /\ resetTime'[d] = resetTime[d]
          /\ (res'.status = 429) <=> (clock < resetTime[c] /\ hits[c] >= MaxRequests)]_vars

\* c2 is served while c1 has used up its budget in a window that is still open
ClientCountersIndependentWitness ==
  /\ res.client = "c2"
  /\ res.op \in RequestOps
  /\ res.status # 429
  /\ hits["c1"] > MaxRequests
  /\ clock < resetTime["c1"]

(***************************************************************************)
(* problem4: the three sums to n, run one statement at a time              *)
(***************************************************************************)
\* a JavaScript number that is whole or ends in .5
Num(whole, half) == [whole |-> whole, half |-> half]

\* x / 2 for a whole x
Halved(x) == Num(x \div 2, x % 2)

\* no call in progress, nothing returned
Unset == [op |-> "sum", n |-> 0, a |-> <<>>, b |-> <<>>, c |-> <<>>]

Machine(pc, n, i, sum, stack, ret) ==
  [pc |-> pc, n |-> n, i |-> i, sum |-> sum, stack |-> stack, ret |-> ret]

Halted == Machine("halted", 0, 0, 0, <<>>, 0)

SumFrame == <<store, seq, clock, hits, resetTime, issued, nodeEnv, variant>>

\* loop condition i < n
LoopContinuesExclusive(i, n) == i < n

\* for (...; i <= n; ...)
LoopContinues(i, n) == i <= n

\* the three functions are called with the same n, one after the other
CallAll(n) ==
  /\ inflight.pc \in {"halted", "done"}
  /\ inflight' = Machine("a", n, 1, 0, <<>>, 0)
  /\ res' = [Unset EXCEPT !.n = n]
  /\ UNCHANGED SumFrame

\* sum_to_n_a: one test of the loop condition, then sum += i; i++ or return sum
sum_to_n_a ==
  /\ inflight.pc = "a"
  /\ IF LoopContinues(inflight.i, inflight.n)
     THEN /\ inflight' = [inflight EXCEPT !.sum = @ + inflight.i, !.i = @ + 1]
          /\ UNCHANGED res
     ELSE /\ res' = [res EXCEPT !.a = <<Num(inflight.sum, 0)>>]
          /\ inflight' = Machine("b", inflight.n, inflight.n, 0, <<>>, 0)
  /\ UNCHANGED SumFrame

\* sum_to_n_b: one call; i holds the argument, stack the callers waiting to add
sum_to_n_b ==
  /\ inflight.pc = "b"
  /\ IF inflight.i = 1
     THEN inflight' = [inflight EXCEPT !.pc = "b.return", !.ret = 1]
     ELSE inflight' = [inflight EXCEPT !.stack = <<inflight.i>> \o @, !.i = @ - 1]
  /\ UNCHANGED res
  /\ UNCHANGED SumFrame

\* return n + sum_to_n_b(n - 1), once the inner call has returned
sum_to_n_b_return ==
  /\ inflight.pc = "b.return"
  /\ IF inflight.stack # <<>>
     THEN /\ inflight' = [inflight EXCEPT !.ret = Head(inflight.stack) + @, !.stack = Tail(@)]
          /\ UNCHANGED res
     ELSE /\ res' = [res EXCEPT !.b = <<Num(inflight.ret, 0)>>]
          /\ inflight' = Machine("c", inflight.n, 0, 0, <<>>, 0)
  /\ UNCHANGED SumFrame

\* sum_to_n_c: return (n * (n + 1)) / 2
sum_to_n_c ==
  /\ inflight.pc = "c"
  /\ res' = [res EXCEPT !.c = <<Halved(inflight.n * (inflight.n + 1))>>]
  /\ inflight' = [inflight EXCEPT !.pc = "done"]
  /\ UNCHANGED SumFrame

InitSum ==
  /\ store = <<>>
  /\ seq = 0
  /\ clock = 0
  /\ hits = [c \in Clients |-> 0]
  /\ resetTime = [c \in Clients |-> 0]
  /\ res = Unset
  /\ issued = {}
  /\ inflight = Halted
  /\ nodeEnv = "production"
  /\ variant = "enhanced"

\* the statements of a call in progress
Run ==
  \/ sum_to_n_a
  \/ sum_to_n_b
  \/ sum_to_n_b_return
  \/ sum_to_n_c

NextSum ==
  \/ \E n \in 1..MaxN : CallAll(n)
  \/ Run

SpecSum == InitSum /\ [][NextSum]_vars

\* a call in progress executes its next statement
SpecSumFair == SpecSum /\ WF_vars(Run)

\* 1 + 2 + ... + n, counted as the pairs j <= i of 1..n
Triangle(n) == Cardinality({p \in (1..n) \X (1..n) : p[2] <= p[1]})

\* C30: called with any n of 1..MaxN, each of the three functions returns, and
\* all three return the whole number 1 + 2 + ... + n.
SumsAgree ==
  /\ [](inflight.pc = "done" =>
          /\ res.a = <<Num(Triangle(res.n), 0)>>
          /\ res.b = res.a
          /\ res.c = res.a)
  /\ \A n \in 1..MaxN :
       (inflight.pc = "a" /\ inflight.n = n) ~> (inflight.pc = "done" /\ res.n = n)

\* the three functions have returned 55 for n = 10
SumsAgreeWitness ==
  /\ inflight.pc = "done"
  /\ res.n = 10
  /\ res.a = <<Num(55, 0)>>
  /\ res.b = <<Num(55, 0)>>
  /\ res.c = <<Num(55, 0)>>

====
